---- MODULE Spec2Model ----
(***************************************************************************)
(* Model of moonraker/components/file_manager/preprocess_cancellation.py.  *)
(*                                                                         *)
(* A G-code file is a sequence of lines.  A line is a record: field k is   *)
(* the shape of its text (what the code's startswith / strip / split tests *)
(* see), ind says that the text is preceded by whitespace, and the other   *)
(* fields are the values the code extracts from it.  Identifiers are       *)
(* sequences of one-character strings, so that _clean_id is computed.      *)
(***************************************************************************)
EXTENDS Integers, Sequences, FiniteSets, TLC

(***************************************************************************)
(* Bounds of the model.                                                    *)
(***************************************************************************)
MaxLen == 4
MaxLead == 3
\* coordinates of the points given to a HullTracker run on its own, and their number
MaxCoord == 2
MaxAdds == 3
\* length of the identifiers given to _clean_id run on its own
MaxIdLen == 4

\* Python's None, and a value that is present
None == [k |-> "None"]
Some(v) == [k |-> "Some", v |-> v]

(***************************************************************************)
(* Lines of a file.                                                        *)
(***************************************************************************)
Blank == [k |-> "blank", ind |-> FALSE]
Comment == [k |-> "comment", ind |-> FALSE]
Sig(s) == [k |-> "sig", ind |-> FALSE, slicer |-> s]
IndSig(s) == [k |-> "sig", ind |-> TRUE, slicer |-> s]
GeneratedBy == [k |-> "generated_by", ind |-> FALSE]
ObjectLine(json) == [k |-> "object", ind |-> FALSE, json |-> json]
Plater == [k |-> "plater", ind |-> FALSE]
PrintingObject(id) == [k |-> "printing_object", ind |-> FALSE, id |-> id]
StopPrintingObject(id) == [k |-> "stop_printing_object", ind |-> FALSE, id |-> id]
Mesh(name) == [k |-> "MESH", ind |-> FALSE, name |-> name]
TimeElapsed(t) == [k |-> "TIME_ELAPSED", ind |-> FALSE, t |-> t]
Printing(name) == [k |-> "PRINTING", ind |-> FALSE, name |-> name]
PrintingId(id) == [k |-> "PRINTING_ID", ind |-> FALSE, id |-> id]
TotalNum(n) == [k |-> "TOTAL_NUM", ind |-> FALSE, n |-> n]
RemainingTime0 == [k |-> "REMAINING_TIME_0", ind |-> FALSE]
\* a G-code command: keys is the set of parameter letters, x and y the values of X and Y
GMove(keys, x, y) == [k |-> "g", ind |-> FALSE, keys |-> keys, x |-> x, y |-> y]

\* the lines MarkerEmitter writes
HeaderMarkerLine == [k |-> "header_marker", ind |-> FALSE]
KnownObjectsLine(n) == [k |-> "known_objects", ind |-> FALSE, n |-> n]
DefineLine(name, center, polygon) ==
    [k |-> "DEFINE_OBJECT", ind |-> FALSE, name |-> name, center |-> center, polygon |-> polygon]
StartLine(name) == [k |-> "START_CURRENT_OBJECT", ind |-> FALSE, name |-> name]
EndLine(name) == [k |-> "END_CURRENT_OBJECT", ind |-> FALSE, name |-> name]

\* line.startswith(";"): the kinds whose text begins with a semicolon
CommentKinds ==
    {"comment", "sig", "generated_by", "object", "plater", "printing_object",
     "stop_printing_object", "MESH", "TIME_ELAPSED", "PRINTING", "PRINTING_ID",
     "TOTAL_NUM", "REMAINING_TIME_0", "header_marker", "known_objects"}

\* line.startswith(prefix) for a prefix that is the leading text of kind kd
StartsWith(line, kd) == line.k = kd /\ ~line.ind
\* not line.strip()
IsBlank(line) == line.k = "blank"
\* line.startswith(";")
StartsWithSemicolon(line) == line.k \in CommentKinds /\ ~line.ind
\* line.startswith("; generated by"): the three "; generated by <Slicer>" signatures too
StartsWithGeneratedBy(line) ==
    /\ ~line.ind
    /\ \/ line.k = "generated_by"
       \/ line.k = "sig" /\ line.slicer \in {"superslicer", "prusaslicer", "slic3r"}
\* line.strip().lower().startswith("g")
IsGLine(line) == line.k = "g"

(***************************************************************************)
(* _clean_id: re.sub(r"\W+", "_", id).strip("_")                           *)
(***************************************************************************)
\* the characters \w matches, among those the model's identifiers are made of
WordChars ==
    {"a", "b", "c", "d", "e", "f", "g", "h", "i", "j", "k", "l", "m", "n", "o", "p", "q",
     "r", "s", "t", "u", "v", "w", "x", "y", "z", "A", "B", "C", "D", "E", "F", "G", "H",
     "I", "J", "K", "L", "M", "N", "O", "P", "Q", "R", "S", "T", "U", "V", "W", "X", "Y",
     "Z", "0", "1", "2", "3", "4", "5", "6", "7", "8", "9", "_"}

RECURSIVE SubNonWord(_)
\* re.sub(r"\W+", "_", s): every maximal run of non-word characters becomes one "_"
SubNonWord(s) ==
    IF s = <<>> THEN <<>>
    ELSE IF Head(s) \in WordChars THEN <<Head(s)>> \o SubNonWord(Tail(s))
    ELSE IF Len(s) > 1 /\ s[2] \notin WordChars THEN SubNonWord(Tail(s))
    ELSE <<"_">> \o SubNonWord(Tail(s))

RECURSIVE LStrip(_)
LStrip(s) == IF s # <<>> /\ Head(s) = "_" THEN LStrip(Tail(s)) ELSE s

RECURSIVE RStrip(_)
RStrip(s) == IF s # <<>> /\ s[Len(s)] = "_" THEN RStrip(SubSeq(s, 1, Len(s) - 1)) ELSE s

Strip(s) == RStrip(LStrip(s))

\* mutant of CleanId: the underscores at the two ends are left in place
CleanId_NoStrip(id) == SubNonWord(id)

CleanId(id) == Strip(SubNonWord(id))

(***************************************************************************)
(* HullTracker and boundingbox.  A hull is its set of points <<x, y>>.     *)
(***************************************************************************)
RECURSIVE Gcd(_, _)
Gcd(a, b) == IF b = 0 THEN a ELSE Gcd(b, a % b)

\* the quotient n / d (d > 0) as a reduced fraction
Frac(n, d) ==
    LET g == Gcd(IF n < 0 THEN -n ELSE n, d)
    IN [num |-> n \div g, den |-> d \div g]

RECURSIVE SumOf(_, _)
SumOf(points, i) ==
    IF points = {} THEN 0
    ELSE LET p == CHOOSE q \in points : TRUE
         IN p[i] + SumOf(points \ {p}, i)

AddPoint(points, p) == points \cup {p}

Center(points) ==
    IF points = {} THEN None
    ELSE Some(<<Frac(SumOf(points, 1), Cardinality(points)),
                Frac(SumOf(points, 2), Cardinality(points))>>)

\* mutant of BoundingBox: the corners in the other direction of rotation
BoundingBox_OtherWay(pmin, pmax) ==
    << <<pmin[1], pmin[2]>>, <<pmax[1], pmin[2]>>,
       <<pmax[1], pmax[2]>>, <<pmin[1], pmax[2]>> >>

BoundingBox(pmin, pmax) ==
    << <<pmin[1], pmin[2]>>, <<pmin[1], pmax[2]>>,
       <<pmax[1], pmax[2]>>, <<pmax[1], pmin[2]>> >>

MinOf(S) == CHOOSE m \in S : \A v \in S : m <= v
MaxOf(S) == CHOOSE m \in S : \A v \in S : m >= v

Exterior(points) ==
    IF points = {} THEN None
    ELSE LET xs == {p[1] : p \in points}
             ys == {p[2] : p \in points}
         IN Some(BoundingBox(<<MinOf(xs), MinOf(ys)>>, <<MaxOf(xs), MaxOf(ys)>>))

(***************************************************************************)
(* MarkerEmitter.  The chunks a generator yields are written one after the *)
(* other, so header()'s "\n\n" chunk is two empty lines of the output and  *)
(* the chunks of define_object() make one line.                            *)
(***************************************************************************)
Header(object_count) ==
    <<Blank, Blank, HeaderMarkerLine, KnownObjectsLine(object_count)>>

\* Python truth of an optional list or tuple: neither None nor empty
Truthy(v) == v # None /\ v.v # <<>>

\* "if center:" writes every component of center, "if polygon:" the json of polygon
DefineObject(name, center, polygon) ==
    <<DefineLine(name,
                 IF Truthy(center) THEN center ELSE None,
                 IF Truthy(polygon) THEN polygon ELSE None)>>

ObjectStartMarker(object_name) == <<StartLine(object_name)>>
ObjectEndMarker(object_name) == <<EndLine(object_name)>>

(***************************************************************************)
(* What a dialect parser (a generator) leaves behind: out, the lines it    *)
(* yielded; ok, FALSE when an exception ended it; known, its registry      *)
(* (known_objects, in insertion order).                                    *)
(***************************************************************************)
Result(out, ok, known) == [out |-> out, ok |-> ok, known |-> known]

\* position of key id in an insertion-ordered dict (0: absent)
IndexOf(known, id) ==
    IF \E j \in 1..Len(known) : known[j].id = id
    THEN CHOOSE j \in 1..Len(known) : known[j].id = id
    ELSE 0

\* mutant of DictSet: a list that is appended to, whether the key is present or not
DictSet_AlwaysAppend(known, id, entry) == Append(known, entry)

\* known_objects[id] = entry: a present key keeps its position
DictSet(known, id, entry) ==
    IF IndexOf(known, id) # 0
    THEN [known EXCEPT ![IndexOf(known, id)] = entry]
    ELSE Append(known, entry)

(***************************************************************************)
(* preprocess_pipe                                                         *)
(***************************************************************************)
PreprocessPipe(infile) == Result(infile, TRUE, <<>>)

(***************************************************************************)
(* preprocess_superslicer.  The json of an "; object:" line is a record:   *)
(* valid (json.loads accepts it), id, and object_center,                   *)
(* boundingbox_center, boundingbox_size (None when the key is missing).    *)
(***************************************************************************)
\* lines 210-216: polygon of one object; None when a box is missing or empty
SuperPolygon(object_data) ==
    LET c == object_data.boundingbox_center
        s == object_data.boundingbox_size
    IN IF Truthy(c) /\ Truthy(s)
       THEN Some(BoundingBox(<<c.v[1] - s.v[1] \div 2, c.v[2] - s.v[2] \div 2>>,
                             <<c.v[1] + s.v[1] \div 2, c.v[2] + s.v[2] \div 2>>))
       ELSE None

\* "[x, y, *_] = ..." raises on a list of fewer than two numbers
SuperUnpackFails(object_data) ==
    LET c == object_data.boundingbox_center
        s == object_data.boundingbox_size
    IN Truthy(c) /\ Truthy(s) /\ (Len(c.v) < 2 \/ Len(s.v) < 2)

RECURSIVE SuperDefines(_, _, _)
\* lines 209-222: one DEFINE_OBJECT per registered object, from the j-th on
SuperDefines(known, j, out) ==
    IF j > Len(known) THEN Result(out, TRUE, known)
    ELSE IF SuperUnpackFails(known[j]) THEN Result(out, FALSE, known)
    ELSE SuperDefines(known, j + 1,
            out \o DefineObject(known[j].clean_id, known[j].object_center,
                                SuperPolygon(known[j])))

RECURSIVE SuperTail_EndForStart(_, _, _, _)
\* mutant of SuperTail: "; printing object" lines get the end marker too
SuperTail_EndForStart(infile, i, known, out) ==
    IF i > Len(infile) THEN Result(out, TRUE, known)
    ELSE LET line == infile[i]
             out1 == Append(out, line)
         IN IF StartsWith(line, "printing_object") \/ StartsWith(line, "stop_printing_object")
            THEN IF IndexOf(known, line.id) = 0 THEN Result(out1, FALSE, known)
                 ELSE SuperTail_EndForStart(infile, i + 1, known,
                        out1 \o ObjectEndMarker(known[IndexOf(known, line.id)].clean_id))
            ELSE SuperTail_EndForStart(infile, i + 1, known, out1)

RECURSIVE SuperTail_IgnoreUnknown(_, _, _, _)
\* mutant of SuperTail: a line that names an unregistered id is passed over
SuperTail_IgnoreUnknown(infile, i, known, out) ==
    IF i > Len(infile) THEN Result(out, TRUE, known)
    ELSE LET line == infile[i]
             out1 == Append(out, line)
         IN IF StartsWith(line, "printing_object") /\ IndexOf(known, line.id) # 0
            THEN SuperTail_IgnoreUnknown(infile, i + 1, known,
                    out1 \o ObjectStartMarker(known[IndexOf(known, line.id)].clean_id))
            ELSE IF StartsWith(line, "stop_printing_object") /\ IndexOf(known, line.id) # 0
            THEN SuperTail_IgnoreUnknown(infile, i + 1, known,
                    out1 \o ObjectEndMarker(known[IndexOf(known, line.id)].clean_id))
            ELSE SuperTail_IgnoreUnknown(infile, i + 1, known, out1)

RECURSIVE SuperTail(_, _, _, _)
\* lines 226-233: the lines after "; plater:"
SuperTail(infile, i, known, out) ==
    IF i > Len(infile) THEN Result(out, TRUE, known)
    ELSE LET line == infile[i]
             out1 == Append(out, line)
         IN IF StartsWith(line, "printing_object")
            THEN IF IndexOf(known, line.id) = 0 THEN Result(out1, FALSE, known)
                 ELSE SuperTail(infile, i + 1, known,
                        out1 \o ObjectStartMarker(known[IndexOf(known, line.id)].clean_id))
            ELSE IF StartsWith(line, "stop_printing_object")
            THEN IF IndexOf(known, line.id) = 0 THEN Result(out1, FALSE, known)
                 ELSE SuperTail(infile, i + 1, known,
                        out1 \o ObjectEndMarker(known[IndexOf(known, line.id)].clean_id))
            ELSE SuperTail(infile, i + 1, known, out1)

RECURSIVE SuperHead(_, _, _, _)
\* lines 190-224: the lines up to the first "; plater:"
SuperHead(infile, i, known, out) ==
    IF i > Len(infile) THEN Result(out, TRUE, known)
    ELSE LET line == infile[i]
             out1 == Append(out, line)
         IN IF StartsWith(line, "object")
            THEN IF ~line.json.valid THEN Result(out1, FALSE, known)
                 ELSE SuperHead(infile, i + 1,
                        DictSet(known, line.json.id,
                                [id |-> line.json.id,
                                 clean_id |-> CleanId(line.json.id),
                                 object_center |-> line.json.object_center,
                                 boundingbox_center |-> line.json.boundingbox_center,
                                 boundingbox_size |-> line.json.boundingbox_size]),
                        out1)
            ELSE IF StartsWith(line, "plater")
            THEN LET defs == SuperDefines(known, 1, out1 \o Header(Len(known)))
                 IN IF defs.ok THEN SuperTail(infile, i + 1, known, defs.out) ELSE defs
            ELSE SuperHead(infile, i + 1, known, out1)

PreprocessSuperslicer(infile) == SuperHead(infile, 1, <<>>, <<>>)

(***************************************************************************)
(* The geometry step shared by the scanning parsers (lines 140-145,        *)
(* 246-251, 296-301): known is a sequence of [id, name, points], cur the   *)
(* position of current_hull's object in it (0: current_hull is None).      *)
(***************************************************************************)
RecordMove(known, cur, line) ==
    IF cur # 0 /\ IsGLine(line) /\ {"E", "X", "Y"} \subseteq line.keys
    THEN [known EXCEPT ![cur].points = AddPoint(@, <<line.x, line.y>>)]
    ELSE known

KnownObject(id, name) == [id |-> id, name |-> name, points |-> {}]

RECURSIVE HullDefines(_, _)
\* lines 158-163, 260-265, 313-318: one DEFINE_OBJECT per registered object
HullDefines(known, j) ==
    IF j > Len(known) THEN <<>>
    ELSE DefineObject(known[j].name, Center(known[j].points), Exterior(known[j].points))
         \o HullDefines(known, j + 1)

(***************************************************************************)
(* preprocess_slicer (PrusaSlicer and Slic3r)                              *)
(***************************************************************************)
RECURSIVE SlicerScan(_, _, _, _)
\* lines 239-251
SlicerScan(infile, i, known, cur) ==
    IF i > Len(infile) THEN known
    ELSE LET line == infile[i]
             known1 == IF StartsWith(line, "printing_object") /\ IndexOf(known, line.id) = 0
                       THEN Append(known, KnownObject(line.id, CleanId(line.id)))
                       ELSE known
             cur1 == IF StartsWith(line, "printing_object")
                     THEN IndexOf(known1, line.id) ELSE cur
         IN SlicerScan(infile, i + 1, RecordMove(known1, cur1, line), cur1)

RECURSIVE SlicerEmit(_, _, _, _)
\* lines 255-271
SlicerEmit(infile, i, known, out) ==
    IF i > Len(infile) THEN Result(out, TRUE, known)
    ELSE LET line == infile[i]
             out1 == Append(out, line)
             out2 == IF StartsWithGeneratedBy(line)
                     THEN out1 \o Header(Len(known)) \o HullDefines(known, 1)
                     ELSE out1
         IN IF StartsWith(line, "printing_object")
            THEN IF IndexOf(known, line.id) = 0 THEN Result(out2, FALSE, known)
                 ELSE SlicerEmit(infile, i + 1, known,
                        out2 \o ObjectStartMarker(known[IndexOf(known, line.id)].name))
            ELSE IF StartsWith(line, "stop_printing_object")
            THEN IF IndexOf(known, line.id) = 0 THEN Result(out2, FALSE, known)
                 ELSE SlicerEmit(infile, i + 1, known,
                        out2 \o ObjectEndMarker(known[IndexOf(known, line.id)].name))
            ELSE SlicerEmit(infile, i + 1, known, out2)

PreprocessSlicer(infile) == SlicerEmit(infile, 1, SlicerScan(infile, 1, <<>>, 0), <<>>)

(***************************************************************************)
(* preprocess_cura                                                         *)
(***************************************************************************)
\* the mesh name Cura gives to what belongs to no object
NONMESH == <<"N", "O", "N", "M", "E", "S", "H">>

RECURSIVE CuraScan(_, _, _, _, _)
\* lines 131-148: the registry and last_time_elapsed (None: no such line)
CuraScan(infile, i, known, cur, last) ==
    IF i > Len(infile) THEN [known |-> known, last_time_elapsed |-> last]
    ELSE LET line == infile[i]
         IN IF StartsWith(line, "MESH") /\ line.name = NONMESH
            THEN CuraScan(infile, i + 1, known, cur, last)
            ELSE LET known1 == IF StartsWith(line, "MESH") /\ IndexOf(known, line.name) = 0
                               THEN Append(known, KnownObject(line.name, CleanId(line.name)))
                               ELSE known
                     cur1 == IF StartsWith(line, "MESH")
                             THEN IndexOf(known1, line.name) ELSE cur
                 IN CuraScan(infile, i + 1, RecordMove(known1, cur1, line), cur1,
                             IF StartsWith(line, "TIME_ELAPSED") THEN line ELSE last)

RECURSIVE CuraLead(_, _)
\* lines 151-154: the number of lines the first loop of the emission yields
CuraLead(infile, i) ==
    IF i > Len(infile) THEN Len(infile)
    ELSE IF ~IsBlank(infile[i]) /\ ~StartsWithSemicolon(infile[i]) THEN i
    ELSE CuraLead(infile, i + 1)

RECURSIVE CuraEmit(_, _, _, _, _, _)
\* lines 165-184: current_object is a sanitized name, or None
CuraEmit(infile, i, known, last, current_object, out) ==
    LET open == Truthy(current_object)
    IN IF i > Len(infile)
       THEN Result(IF open THEN out \o ObjectEndMarker(current_object.v) ELSE out,
                   TRUE, known)
       ELSE LET line == infile[i]
                out1 == Append(out, line)
            IN IF StartsWith(line, "MESH")
               THEN LET out2 == IF open THEN out1 \o ObjectEndMarker(current_object.v)
                                ELSE out1
                        cur2 == IF open THEN None ELSE current_object
                    IN IF line.name = NONMESH
                       THEN CuraEmit(infile, i + 1, known, last, cur2, out2)
                       ELSE IF IndexOf(known, line.name) = 0 THEN Result(out2, FALSE, known)
                       ELSE LET name == known[IndexOf(known, line.name)].name
                            IN CuraEmit(infile, i + 1, known, last, Some(name),
                                        out2 \o ObjectStartMarker(name))
               ELSE IF line = last /\ open
               THEN CuraEmit(infile, i + 1, known, last, None,
                             out1 \o ObjectEndMarker(current_object.v))
               ELSE CuraEmit(infile, i + 1, known, last, current_object, out1)

\* mutant of PreprocessCura: the second loop of the emission starts over at the
\* first line of the file
PreprocessCura_StartsOver(infile) ==
    LET scan == CuraScan(infile, 1, <<>>, 0, None)
        n == CuraLead(infile, 1)
    IN CuraEmit(infile, 1, scan.known, scan.last_time_elapsed, None,
                SubSeq(infile, 1, n) \o Header(Len(scan.known))
                    \o HullDefines(scan.known, 1))

PreprocessCura(infile) ==
    LET scan == CuraScan(infile, 1, <<>>, 0, None)
        n == CuraLead(infile, 1)
    IN CuraEmit(infile, n + 1, scan.known, scan.last_time_elapsed, None,
                SubSeq(infile, 1, n) \o Header(Len(scan.known))
                    \o HullDefines(scan.known, 1))

(***************************************************************************)
(* preprocess_ideamaker                                                    *)
(***************************************************************************)
\* the id ideaMaker gives to what belongs to no object
MinusOne == <<"-", "1">>

RECURSIVE UpToColon(_)
\* s.split(":")[0]: the text before the first colon
UpToColon(s) ==
    IF s = <<>> \/ Head(s) = ":" THEN <<>> ELSE <<Head(s)>> \o UpToColon(Tail(s))

RECURSIVE StripSpaces(_)
\* s.strip(), for a text whose only whitespace is the space
StripSpaces(s) ==
    IF s # <<>> /\ Head(s) = " " THEN StripSpaces(Tail(s))
    ELSE IF s # <<>> /\ s[Len(s)] = " " THEN StripSpaces(SubSeq(s, 1, Len(s) - 1))
    ELSE s

\* line 285, line.split(":")[1].strip(): of the text that follows ";PRINTING:"
\* (the name field of the line), the part before the next colon
IdeaName(line) == StripSpaces(UpToColon(line.name))

RECURSIVE IdeaScan(_, _, _, _)
\* lines 283-301: ok is FALSE when next(infile) finds no line or the assert fails
IdeaScan(infile, i, known, cur) ==
    IF i > Len(infile) THEN [ok |-> TRUE, known |-> known]
    ELSE LET line == infile[i]
         IN IF StartsWith(line, "PRINTING")
            THEN IF i + 1 > Len(infile) \/ ~StartsWith(infile[i + 1], "PRINTING_ID")
                 THEN [ok |-> FALSE, known |-> known]
                 ELSE LET id == infile[i + 1].id
                          known1 == IF IndexOf(known, id) = 0
                                    THEN Append(known, KnownObject(id, CleanId(IdeaName(line))))
                                    ELSE known
                      IN IF id = MinusOne
                         THEN IdeaScan(infile, i + 2, known, cur)
                         ELSE IdeaScan(infile, i + 2, known1, IndexOf(known1, id))
            ELSE IdeaScan(infile, i + 1, RecordMove(known, cur, line), cur)

RECURSIVE IdeaEmit(_, _, _, _, _)
\* lines 305-335: current is the position of current_object in known (0: None)
IdeaEmit(infile, i, known, current, out) ==
    IF i > Len(infile)
    THEN Result(IF current # 0 THEN out \o ObjectEndMarker(known[current].name) ELSE out,
                TRUE, known)
    ELSE LET line == infile[i]
             out1 == Append(out, line)
         IN IF StartsWith(line, "TOTAL_NUM")
            THEN IF line.n # Len(known) THEN Result(out1, FALSE, known)
                 ELSE IdeaEmit(infile, i + 1, known, current,
                               out1 \o Header(line.n) \o HullDefines(known, 1))
            ELSE IF StartsWith(line, "PRINTING_ID")
            THEN LET out2 == IF current # 0
                             THEN out1 \o ObjectEndMarker(known[current].name) ELSE out1
                 IN IF line.id = MinusOne THEN IdeaEmit(infile, i + 1, known, 0, out2)
                    ELSE IF IndexOf(known, line.id) = 0 THEN Result(out2, FALSE, known)
                    ELSE IdeaEmit(infile, i + 1, known, IndexOf(known, line.id),
                            out2 \o ObjectStartMarker(known[IndexOf(known, line.id)].name))
            ELSE IF line = RemainingTime0 /\ current # 0
            THEN IdeaEmit(infile, i + 1, known, 0,
                          out1 \o ObjectEndMarker(known[current].name))
            ELSE IdeaEmit(infile, i + 1, known, current, out1)

PreprocessIdeamaker(infile) ==
    LET scan == IdeaScan(infile, 1, <<>>, 0)
    IN IF scan.ok THEN IdeaEmit(infile, 1, scan.known, 0, <<>>)
       ELSE Result(<<>>, FALSE, scan.known)

(***************************************************************************)
(* SLICERS and identify_slicer_marker                                      *)
(***************************************************************************)
\* the value of "processor" when it is None
NoProcessor == "None"

Slicers == <<"superslicer", "prusaslicer", "slic3r", "cura", "ideamaker">>

\* SLICERS[name][1]: the parser registered for a slicer
ProcessorOf(name) ==
    CASE name = "superslicer" -> "preprocess_superslicer"
      [] name = "prusaslicer" -> "preprocess_slicer"
      [] name = "slic3r" -> "preprocess_slicer"
      [] name = "cura" -> "preprocess_cura"
      [] name = "ideamaker" -> "preprocess_ideamaker"

\* line.strip().startswith(marker): the text after leading whitespace is a signature
IdentifySlicerMarker(line) ==
    IF \E n \in 1..Len(Slicers) : line.k = "sig" /\ line.slicer = Slicers[n]
    THEN ProcessorOf(line.slicer)
    ELSE NoProcessor

\* processor(infile)
RunProcessor(processor, infile) ==
    CASE processor = "preprocess_superslicer" -> PreprocessSuperslicer(infile)
      [] processor = "preprocess_slicer" -> PreprocessSlicer(infile)
      [] processor = "preprocess_cura" -> PreprocessCura(infile)
      [] processor = "preprocess_ideamaker" -> PreprocessIdeamaker(infile)

(***************************************************************************)
(* preprocessor: its two scans as operators                                *)
(***************************************************************************)
\* mutant of AlreadyAnnotated: only the first line of the file is looked at
AlreadyAnnotated_FirstLineOnly(infile) ==
    infile # <<>> /\ StartsWith(infile[1], "DEFINE_OBJECT")

\* lines 359-360: some line starts with DEFINE_OBJECT
AlreadyAnnotated(infile) ==
    \E n \in 1..Len(infile) : StartsWith(infile[n], "DEFINE_OBJECT")

RECURSIVE FindProcessor(_, _)
\* lines 368-379: returned is TRUE when the loop ends in "return"; processor is
\* the parser found (None when the lines run out before one is found); read is
\* the number of lines the loop has taken from the file
FindProcessor(infile, i) ==
    IF i > Len(infile)
    THEN [returned |-> FALSE, processor |-> NoProcessor, read |-> Len(infile)]
    ELSE IF IsBlank(infile[i]) THEN FindProcessor(infile, i + 1)
    ELSE IF ~StartsWithSemicolon(infile[i])
    THEN [returned |-> TRUE, processor |-> NoProcessor, read |-> i]
    ELSE IF IdentifySlicerMarker(infile[i]) # NoProcessor
    THEN [returned |-> FALSE, processor |-> IdentifySlicerMarker(infile[i]), read |-> i]
    ELSE FindProcessor(infile, i + 1)

\* the lines a loop over the file yields when pos lines have been read already
Remaining(infile, pos) == SubSeq(infile, pos + 1, Len(infile))

\* mutant of Rewound: the file is left where the detection loop stopped
Rewound_NoSeek(infile, pos) == Remaining(infile, pos)

\* line 381: infile.seek(0), so that the parser is given the file from its start
Rewound(infile, pos) == Remaining(infile, 0)

(***************************************************************************)
(* The inputs of the model: G-code files of each dialect (the signature    *)
(* line, then up to MaxLen lines of that dialect) and files of up to       *)
(* MaxLead lines that exercise the two scans of preprocessor.              *)
(***************************************************************************)
IdA == <<"a">>
IdB == <<"b", " ", "1">>
IdBang == <<"!">>
Id0 == <<"0">>
Id1 == <<"1">>

Json(id, object_center, boundingbox_center, boundingbox_size) ==
    [valid |-> TRUE, id |-> id, object_center |-> object_center,
     boundingbox_center |-> boundingbox_center, boundingbox_size |-> boundingbox_size]
BadJson == [valid |-> FALSE]

G1 == GMove({"E", "X", "Y"}, 1, 1)
G2 == GMove({"E", "X", "Y"}, 3, 2)

SuperLines ==
    {ObjectLine(Json(IdA, Some(<<1, 1, 0>>), Some(<<4, 4, 1>>), Some(<<2, 2, 2>>))),
     ObjectLine(Json(IdA, None, None, None)),
     ObjectLine(Json(IdB, Some(<<>>), Some(<<4, 4, 1>>), None)),
     ObjectLine(Json(IdB, None, Some(<<4>>), Some(<<2, 2>>))),
     ObjectLine(BadJson),
     Plater, PrintingObject(IdA), StopPrintingObject(IdA)}

SlicerLines ==
    {PrintingObject(IdA), StopPrintingObject(IdA), PrintingObject(IdB), G1, G2,
     GeneratedBy}

CuraLines ==
    {Mesh(IdA), Mesh(IdBang), Mesh(NONMESH), TimeElapsed(1), TimeElapsed(2), G1}

IdColon == <<"c", ":", "d">>

IdeaLines ==
    {Printing(IdA), Printing(IdColon), PrintingId(Id0), PrintingId(Id1),
     PrintingId(MinusOne), TotalNum(1), RemainingTime0, G1}

LeadLines ==
    {Sig(Slicers[n]) : n \in 1..Len(Slicers)}
        \cup {IndSig("cura"), Blank, Comment, G1, DefineLine(IdA, None, None)}

\* the lines that follow the signature line in a file of a dialect
BodyLines(slicer) ==
    CASE slicer = "superslicer" -> SuperLines
      [] slicer = "prusaslicer" -> SlicerLines
      [] slicer = "cura" -> CuraLines
      [] slicer = "ideamaker" -> IdeaLines

(***************************************************************************)
(* State: the file system, the command line and the position of the batch. *)
(***************************************************************************)
VARIABLES
    fs,             \* path -> Some(the lines of the file), or None: no such file
    tmp,            \* the scratch files made so far (tempfile.mktemp), in order
    args,           \* args.gcode
    output_suffix,  \* args.output_suffix is given
    idx,            \* position of the for loop of __main__ in args.gcode
    pc,             \* where the run is: "main", "prescan", "detect", "parse", "finish", "exit"
    pos,            \* the number of lines read from the input file since its start
    processor,      \* preprocessor's local
    res,            \* what preprocessor returned: "True", or "None"
    exitcode,       \* exitcode of __main__; the exit status once pc = "exit"
    hist,           \* one record per call of process_file_for_cancellation
    tracker,        \* a HullTracker on its own: its points and the add_point calls made
    word,           \* an identifier given to _clean_id
    cleaned         \* what successive applications of _clean_id to word returned

\* the state of a run of the program, and the state of the functions run on their own
batch == <<fs, tmp, args, output_suffix, idx, pc, pos, processor, res, exitcode, hist>>
pure == <<tracker, word, cleaned>>
vars == <<batch, pure>>

\* what center() and exterior() return for a tracker that holds points
Queries(points) == [center |-> Center(points), exterior |-> Exterior(points)]

\* a HullTracker as __init__ leaves it: no point, no add_point call made; now and
\* before are what the two queries return now and returned before the last call
NewTracker ==
    [points |-> {}, added |-> <<>>, now |-> Queries({}), before |-> Queries({})]

\* the functions run on their own are not in use
PureIdle == tracker = NewTracker /\ word = <<>> /\ cleaned = <<>>

Paths == {"f1", "f2"}
Suffixed(path) == IF path = "f1" THEN "f1_out" ELSE "f2_out"
AllPaths == Paths \cup {Suffixed(p) : p \in Paths}

\* lines 388-392
OutFilePath(path) == IF output_suffix THEN Suffixed(path) ELSE path

\* a second file of the batch
SecondFile == <<Sig("prusaslicer"), PrintingObject(IdA), G1, StopPrintingObject(IdA)>>

\* the file system before the run: f1 holds the input c
Files(c) ==
    [p \in AllPaths |-> IF p = "f1" THEN Some(c)
                        ELSE IF p = "f2" THEN Some(SecondFile) ELSE None]

Init ==
    /\ \/ \E slicer \in {"superslicer", "prusaslicer", "cura", "ideamaker"} :
             \E m \in 0..MaxLen : \E b \in [1..m -> BodyLines(slicer)] :
                fs = Files(<<Sig(slicer)>> \o b)
       \/ \E m \in 0..MaxLead : \E b \in [1..m -> LeadLines] : fs = Files(b)
    /\ \/ args = <<"f1", "f1">> /\ output_suffix = FALSE
       \/ args = <<"f1", "f2">> /\ output_suffix = TRUE
    /\ tmp = <<>>
    /\ idx = 1
    /\ pc = "main"
    /\ pos = 0
    /\ processor = NoProcessor
    /\ res = "None"
    /\ exitcode = 0
    /\ hist = <<>>
    /\ PureIdle

Cur == hist[Len(hist)]
Note(field, value) == [hist EXCEPT ![Len(hist)][field] = value]

\* lines 422-423 and 387-398: the loop takes the next file, which is opened
\* together with a new scratch file, and preprocessor is entered
StartFile ==
    /\ pc = "main"
    /\ idx <= Len(args)
    /\ tmp' = Append(tmp, Some(<<>>))
    /\ hist' = Append(hist, [path |-> args[idx], infile |-> fs[args[idx]].v,
                             target |-> fs[OutFilePath(args[idx])],
                             detected |-> FALSE, parser |-> NoProcessor,
                             known |-> <<>>, written |-> <<>>,
                             outcome |-> "running"])
    /\ pos' = 0
    /\ processor' = NoProcessor
    /\ res' = "None"
    /\ pc' = "prescan"
    /\ UNCHANGED <<fs, args, output_suffix, idx, exitcode>>
    /\ UNCHANGED pure

\* lines 359-364
PreScan ==
    /\ pc = "prescan"
    /\ IF AlreadyAnnotated(Cur.infile)
       THEN /\ tmp' = [tmp EXCEPT ![Len(tmp)] = Some(Remaining(Cur.infile, 0))]
            /\ hist' = Note("written", Remaining(Cur.infile, 0))
            /\ res' = "True"
            /\ pc' = "finish"
       ELSE /\ pc' = "detect"
            /\ UNCHANGED <<tmp, res, hist>>
    /\ pos' = Len(Cur.infile)
    /\ UNCHANGED <<fs, args, output_suffix, idx, processor, exitcode>>
    /\ UNCHANGED pure

\* lines 366-379
Detect ==
    /\ pc = "detect"
    /\ LET found == FindProcessor(Cur.infile, 1)
       IN /\ processor' = found.processor
          /\ pos' = found.read
          /\ pc' = IF found.returned THEN "finish" ELSE "parse"
    /\ hist' = Note("detected", TRUE)
    /\ UNCHANGED <<fs, tmp, args, output_suffix, idx, res, exitcode>>
    /\ UNCHANGED pure

\* lines 381-385 (the parser reads the file to its end, or stops where it raises;
\* nothing reads the file afterwards); an exception (calling None, or one the parser raises) is caught
\* nowhere: it leaves process_file_for_cancellation with the scratch file in
\* place and ends the interpreter with status 1
Parse ==
    /\ pc = "parse"
    /\ IF processor = NoProcessor
       THEN /\ pc' = "exit"
            /\ exitcode' = 1
            /\ hist' = Note("outcome", "raised")
            /\ UNCHANGED <<tmp, res>>
       ELSE LET r == RunProcessor(processor, Rewound(Cur.infile, pos))
                h == [Cur EXCEPT !.parser = processor, !.known = r.known,
                                 !.written = r.out]
            IN /\ tmp' = [tmp EXCEPT ![Len(tmp)] = Some(r.out)]
               /\ IF r.ok
                  THEN /\ res' = "True"
                       /\ pc' = "finish"
                       /\ hist' = [hist EXCEPT ![Len(hist)] = h]
                       /\ UNCHANGED exitcode
                  ELSE /\ pc' = "exit"
                       /\ exitcode' = 1
                       /\ hist' = [hist EXCEPT ![Len(hist)] =
                                                 [h EXCEPT !.outcome = "raised"]]
                       /\ UNCHANGED res
    /\ pos' = Len(Cur.infile)
    /\ UNCHANGED <<fs, args, output_suffix, idx, processor>>
    /\ UNCHANGED pure

\* lines 400-408 and 423-424: commit or discard the scratch file, return res
Finish ==
    /\ pc = "finish"
    /\ IF res = "True"
       THEN /\ fs' = [fs EXCEPT ![OutFilePath(Cur.path)] = tmp[Len(tmp)]]
            /\ hist' = Note("outcome", "True")
            /\ UNCHANGED exitcode
       ELSE /\ exitcode' = 1
            /\ hist' = Note("outcome", "None")
            /\ UNCHANGED fs
    /\ tmp' = [tmp EXCEPT ![Len(tmp)] = None]
    /\ idx' = idx + 1
    /\ pc' = "main"
    /\ UNCHANGED <<args, output_suffix, pos, processor, res>>
    /\ UNCHANGED pure

\* line 426
Exit ==
    /\ pc = "main"
    /\ idx > Len(args)
    /\ pc' = "exit"
    /\ UNCHANGED <<fs, tmp, args, output_suffix, idx, pos, processor, res, exitcode, hist>>
    /\ UNCHANGED pure

Next == StartFile \/ PreScan \/ Detect \/ Parse \/ Finish \/ Exit

Spec == Init /\ [][Next]_vars

(***************************************************************************)
(* HullTracker run on its own: any sequence of up to MaxAdds add_point     *)
(* calls with coordinates in -1..MaxCoord.  After each call center() and   *)
(* exterior() are asked; "before" holds what they returned before it.      *)
(***************************************************************************)
\* no run of the program is in progress
BatchIdle ==
    /\ fs = [p \in AllPaths |-> None]
    /\ tmp = <<>>
    /\ args = <<>>
    /\ output_suffix = FALSE
    /\ idx = 1
    /\ pc = "exit"
    /\ pos = 0
    /\ processor = NoProcessor
    /\ res = "None"
    /\ exitcode = 0
    /\ hist = <<>>

HullInit ==
    /\ BatchIdle
    /\ tracker = NewTracker
    /\ word = <<>>
    /\ cleaned = <<>>

\* tracker.add_point(Point(x, y)), then tracker.center() and tracker.exterior()
AddPointCall ==
    /\ Len(tracker.added) < MaxAdds
    /\ \E x, y \in (-1)..MaxCoord :
          tracker' = [points |-> AddPoint(tracker.points, <<x, y>>),
                      added |-> Append(tracker.added, <<x, y>>),
                      now |-> Queries(AddPoint(tracker.points, <<x, y>>)),
                      before |-> tracker.now]
    /\ UNCHANGED <<batch, word, cleaned>>

HullNext == AddPointCall

SpecHull == HullInit /\ [][HullNext]_vars

(***************************************************************************)
(* _clean_id run on its own: an identifier of up to MaxIdLen characters,   *)
(* or one of the two examples of the specification, is sanitized, and the  *)
(* result is sanitized again.                                              *)
(***************************************************************************)
IdChars == {"a", "1", "_", " ", "!"}
CubeOne == <<"c", "u", "b", "e", " ", "o", "n", "e", "!", "!">>
UnderA == <<"_", "_", "a", "_", "_">>

CleanIdInit ==
    /\ BatchIdle
    /\ tracker = NewTracker
    /\ \/ \E m \in 0..MaxIdLen : word \in [1..m -> IdChars]
       \/ word \in {CubeOne, UnderA}
    /\ cleaned = <<>>

\* _clean_id(word), then _clean_id of what it returned
CleanIdCall ==
    /\ Len(cleaned) < 2
    /\ cleaned' = Append(cleaned,
                         CleanId(IF cleaned = <<>> THEN word ELSE cleaned[Len(cleaned)]))
    /\ UNCHANGED <<batch, tracker, word>>

CleanIdNext == CleanIdCall

SpecCleanId == CleanIdInit /\ [][CleanIdNext]_vars

(***************************************************************************)
(* Properties.  They are stated on hist (what each call read, did and      *)
(* wrote), on the scratch files and on the file system.                    *)
(***************************************************************************)
Calls == 1..Len(hist)
Ended(n) == hist[n].outcome # "running"

\* some line of the file, at any position, begins with DEFINE_OBJECT
HasDefineLine(c) == \E n \in 1..Len(c) : c[n].k = "DEFINE_OBJECT" /\ ~c[n].ind

\* line n of c lies in the leading block of blank and comment lines of c
InLead(c, n) ==
    \A m \in 1..n : c[m].k = "blank" \/ (c[m].k \in CommentKinds /\ ~c[m].ind)

\* line n of c carries one of the five signatures
IsSignature(c, n) ==
    c[n].k = "sig"
        /\ c[n].slicer \in {"superslicer", "prusaslicer", "slic3r", "cura", "ideamaker"}

\* the leading block of c holds a signature
LeadHasSignature(c) == \E n \in 1..Len(c) : InLead(c, n) /\ IsSignature(c, n)

\* C1: a file with a line that begins with DEFINE_OBJECT, at any position, is
\* written out unchanged and reported as success, and neither detection nor a
\* dialect parser runs on it, with or without a slicer signature
C1_AlreadyAnnotated ==
    \A n \in Calls :
        HasDefineLine(hist[n].infile) =>
            /\ ~hist[n].detected
            /\ hist[n].parser = NoProcessor
            /\ hist[n].outcome \in {"running", "True"}
            /\ (n < Len(hist) \/ pc \in {"finish", "main", "exit"}) =>
                   hist[n].written = hist[n].infile
            /\ hist[n].outcome = "True" /\ n = Len(hist) =>
                   fs[OutFilePath(hist[n].path)] = Some(hist[n].infile)

\* C1 witness: a file without signature whose DEFINE_OBJECT line is not the first
\* has been passed through
C1_Witness ==
    \E n \in Calls :
        /\ hist[n].outcome = "True"
        /\ HasDefineLine(hist[n].infile)
        /\ hist[n].infile[1].k # "DEFINE_OBJECT"
        /\ \A m \in 1..Len(hist[n].infile) : hist[n].infile[m].k # "sig"

\* C2: when a file was annotated by a dialect parser and is processed again in
\* place, the second run succeeds and writes what it read
C2_Idempotent ==
    \A n \in Calls :
        /\ n > 1
        /\ ~output_suffix
        /\ hist[n].path = hist[n - 1].path
        /\ hist[n - 1].outcome = "True"
        /\ hist[n - 1].parser # NoProcessor
        /\ Ended(n)
        => /\ hist[n].outcome = "True"
           /\ hist[n].infile = hist[n - 1].written
           /\ hist[n].written = hist[n].infile

\* C3: a file with no DEFINE_OBJECT line and no signature in its leading block
\* makes preprocessor return a non-success result; no parser runs, nothing is
\* written and the target file is not replaced
C3_DetectionFailure ==
    \A n \in Calls :
        /\ ~HasDefineLine(hist[n].infile)
        /\ ~LeadHasSignature(hist[n].infile)
        /\ Ended(n)
        => /\ hist[n].outcome = "None"
           /\ hist[n].parser = NoProcessor
           /\ hist[n].written = <<>>
           /\ n = Len(hist) => fs[OutFilePath(hist[n].path)] = hist[n].target

\* C4: a parser that fails in the middle of a file makes
\* process_file_for_cancellation return a non-success result, the later files of
\* the batch are still processed and the exit status is not zero
C4_FailureIsolation ==
    \A n \in Calls :
        hist[n].parser # NoProcessor /\ hist[n].outcome \notin {"running", "True"} =>
            /\ hist[n].outcome = "None"
            /\ pc = "exit" => Len(hist) = Len(args) /\ exitcode # 0

\* C5: the target is replaced by the scratch output only on success; after a
\* failure the original file is unchanged and the scratch file is gone
C5_CommitOnlyOnSuccess ==
    \A n \in Calls :
        n = Len(hist) /\ Ended(n) =>
            /\ fs[OutFilePath(hist[n].path)] # hist[n].target => hist[n].outcome = "True"
            /\ hist[n].outcome # "True" =>
                   /\ fs[hist[n].path] = Some(hist[n].infile)
                   /\ fs[OutFilePath(hist[n].path)] = hist[n].target
                   /\ tmp[n] = None

(***************************************************************************)
(* The output of a dialect parser, as the properties read it.              *)
(***************************************************************************)
\* the calls on which a dialect parser ran
ParsedCalls == {n \in Calls : hist[n].parser # NoProcessor}

\* the call whose parser has just ended (what a call wrote, registered and how
\* its parser ended do not change afterwards)
JustParsed ==
    IF pc \in {"finish", "exit"} /\ hist # <<>> /\ hist[Len(hist)].parser # NoProcessor
    THEN {Len(hist)} ELSE {}

IsKind(line, kd) == line.k = kd /\ ~line.ind

\* the native ids the scan of call n registers, read off the input file
ScanIds(n) ==
    LET c == hist[n].infile
        At == 1..Len(c)
    IN CASE hist[n].parser = "preprocess_superslicer" ->
              {c[m].json.id : m \in {x \in At : /\ IsKind(c[x], "object")
                                                 /\ \A y \in 1..x : ~IsKind(c[y], "plater")}}
         [] hist[n].parser = "preprocess_slicer" ->
              {c[m].id : m \in {x \in At : IsKind(c[x], "printing_object")}}
         [] hist[n].parser = "preprocess_cura" ->
              {c[m].name : m \in {x \in At : IsKind(c[x], "MESH")}} \ {NONMESH}
         [] hist[n].parser = "preprocess_ideamaker" ->
              {c[m + 1].id : m \in {x \in At : x < Len(c) /\ IsKind(c[x], "PRINTING")}}
                 \ {MinusOne}

\* the sanitized name of the j-th object of the registry of call n
RegName(n, j) ==
    IF hist[n].parser = "preprocess_superslicer"
    THEN hist[n].known[j].clean_id ELSE hist[n].known[j].name

RegIds(n) == {hist[n].known[j].id : j \in 1..Len(hist[n].known)}

RECURSIVE RunOfDefines(_, _)
\* the number of consecutive DEFINE_OBJECT lines of w from position p on
RunOfDefines(w, p) ==
    IF p <= Len(w) /\ w[p].k = "DEFINE_OBJECT" THEN 1 + RunOfDefines(w, p + 1) ELSE 0

\* with m the number of DEFINE_OBJECT lines that follow the header line at p:
\* the header states the number of distinct registered ids, and the lines
\* define the first m registered objects in registration order
HeaderBlockAt(n, p, m) ==
    LET w == hist[n].written
    IN /\ w[p].n = Cardinality(ScanIds(n))
       /\ RegIds(n) = ScanIds(n)
       /\ Len(hist[n].known) = Cardinality(ScanIds(n))
       /\ m <= w[p].n
       /\ \A j \in 1..m : w[p + j].name = RegName(n, j)

\* a ;TOTAL_NUM: line that disagrees with the registry ends the file in failure,
\* and no header follows it
TotalNumChecked(n) ==
    LET w == hist[n].written
    IN hist[n].parser = "preprocess_ideamaker" =>
          \A p \in 1..Len(w) :
              IsKind(w[p], "TOTAL_NUM") /\ w[p].n # Cardinality(ScanIds(n)) =>
                  hist[n].outcome = "raised" /\ p = Len(w)

\* C6 as stated: every header line is followed by exactly as many
\* DEFINE_OBJECT lines as it announces
C6_HeaderCount_AsStated ==
    \A n \in ParsedCalls :
        LET w == hist[n].written
        IN /\ \A p \in 1..Len(w) :
                 w[p].k = "known_objects" =>
                    /\ HeaderBlockAt(n, p, RunOfDefines(w, p + 1))
                    /\ RunOfDefines(w, p + 1) = w[p].n
           /\ TotalNumChecked(n)

\* C6 (amended): every header line states the number of distinct registered
\* ids and is followed by exactly that many DEFINE_OBJECT lines, one per
\* registered object in registration order, except that a SuperSlicer file
\* that fails inside the block ends after the DEFINE_OBJECT lines of the
\* objects before the malformed one; a ;TOTAL_NUM: that disagrees with the
\* registry fails the ideaMaker file with no header emitted
C6_HeaderCount ==
    \A n \in JustParsed :
        LET w == hist[n].written
        IN /\ \A p \in 1..Len(w) :
                 w[p].k = "known_objects" =>
                    LET m == RunOfDefines(w, p + 1)
                    IN /\ HeaderBlockAt(n, p, m)
                       /\ \/ m = w[p].n
                          \/ /\ hist[n].parser = "preprocess_superslicer"
                             /\ hist[n].outcome = "raised"
                             /\ p + m = Len(w)
                             /\ SuperUnpackFails(hist[n].known[m + 1])
           /\ TotalNumChecked(n)

\* C6 witness: a header announcing two objects, followed by their two
\* DEFINE_OBJECT lines, in a file that succeeded
C6_Witness ==
    \E n \in ParsedCalls :
        /\ hist[n].outcome = "True"
        /\ \E p \in 1..Len(hist[n].written) :
              /\ hist[n].written[p].k = "known_objects"
              /\ hist[n].written[p].n = 2
              /\ RunOfDefines(hist[n].written, p + 1) = 2

\* the position of the first line of kind kd in w (0: there is none)
FirstOf(w, kd) ==
    IF \E p \in 1..Len(w) : IsKind(w[p], kd)
    THEN CHOOSE p \in 1..Len(w) : IsKind(w[p], kd) /\ \A x \in 1..(p - 1) : ~IsKind(w[x], kd)
    ELSE 0

MarkerKinds == {"START_CURRENT_OBJECT", "END_CURRENT_OBJECT"}

\* in the output of SuperSlicer call n the header block and every
\* DEFINE_OBJECT line stand directly after the first "; plater:" line and
\* before every START/END marker; after the block each "; printing object <id>"
\* line of a registered id is directly followed by START_CURRENT_OBJECT of the
\* sanitized id, each "; stop printing object <id>" line by END_CURRENT_OBJECT,
\* no marker stands anywhere else, and the object of every marker is defined
\* before it
SuperPlacement(n) ==
        LET w == hist[n].written
            q == FirstOf(w, "plater")
            m == RunOfDefines(w, q + 5)
            blockEnd == q + 4 + m
        IN hist[n].parser = "preprocess_superslicer" /\ q # 0 =>
              /\ SubSeq(w, 1, q) = SubSeq(hist[n].infile, 1, q)
              /\ SubSeq(w, q + 1, q + 4) = Header(Len(hist[n].known))
              /\ m = Len(hist[n].known) \/ (hist[n].outcome = "raised" /\ blockEnd = Len(w))
              /\ \A p \in 1..Len(w) :
                    /\ w[p].k = "DEFINE_OBJECT" => p \in (q + 5)..blockEnd
                    /\ w[p].k \in MarkerKinds =>
                          /\ p > blockEnd + 1
                          /\ \E d \in (q + 5)..blockEnd : w[d].name = w[p].name
                    /\ w[p].k = "START_CURRENT_OBJECT" =>
                          /\ IsKind(w[p - 1], "printing_object")
                          /\ w[p].name = CleanId(w[p - 1].id)
                    /\ w[p].k = "END_CURRENT_OBJECT" =>
                          /\ IsKind(w[p - 1], "stop_printing_object")
                          /\ w[p].name = CleanId(w[p - 1].id)
                    /\ p > blockEnd /\ IsKind(w[p], "printing_object")
                          /\ w[p].id \in ScanIds(n) =>
                             p < Len(w) /\ w[p + 1] = StartLine(CleanId(w[p].id))
                    /\ p > blockEnd /\ IsKind(w[p], "stop_printing_object")
                          /\ w[p].id \in ScanIds(n) =>
                             p < Len(w) /\ w[p + 1] = EndLine(CleanId(w[p].id))

\* C7 as stated: the placement above, and DEFINE, START, END of an object
\* appear in that order: every END of an object has a START of it before it
C7_SuperSlicerOrder_AsStated ==
    \A n \in ParsedCalls :
        /\ SuperPlacement(n)
        /\ hist[n].parser = "preprocess_superslicer" =>
               \A b \in 1..Len(hist[n].written) :
                   hist[n].written[b].k = "END_CURRENT_OBJECT" =>
                       \E a \in 1..(b - 1) :
                           hist[n].written[a] = StartLine(hist[n].written[b].name)

\* C7 (amended): the placement above; DEFINE comes before START and END of
\* the object, and START before END wherever the "; printing object <id>"
\* line comes, after "; plater:", before the "; stop printing object <id>" line
C7_SuperSlicerOrder ==
    \A n \in JustParsed :
        LET w == hist[n].written
        IN /\ SuperPlacement(n)
           /\ hist[n].parser = "preprocess_superslicer" =>
                  \A b \in 1..Len(w) :
                      /\ w[b].k = "END_CURRENT_OBJECT"
                      /\ \E t \in (FirstOf(w, "plater") + 1)..(b - 1) :
                             IsKind(w[t], "printing_object") /\ w[t].id = w[b - 1].id
                      => \E a \in 1..(b - 1) : w[a] = StartLine(w[b].name)

\* C7 witness: the scenario of the specification: an object is defined after
\* "; plater:", then started, then ended
C7_Witness ==
    \E n \in ParsedCalls :
        LET w == hist[n].written
        IN /\ hist[n].parser = "preprocess_superslicer"
           /\ hist[n].outcome = "True"
           /\ \E d, a, b \in 1..Len(w) :
                 /\ d > 5 /\ d < a /\ a < b
                 /\ IsKind(w[d - 5], "plater")
                 /\ w[d].k = "DEFINE_OBJECT" /\ w[d].name = <<"a">>
                 /\ w[a] = StartLine(<<"a">>)
                 /\ w[b] = EndLine(<<"a">>)

\* line p of the output of call n is a start/stop trigger of the emission pass
IsTrigger(n, p) ==
    LET w == hist[n].written
    IN CASE hist[n].parser = "preprocess_superslicer" ->
              /\ IsKind(w[p], "printing_object") \/ IsKind(w[p], "stop_printing_object")
              /\ FirstOf(w, "plater") # 0 /\ p > FirstOf(w, "plater")
         [] hist[n].parser = "preprocess_slicer" ->
              IsKind(w[p], "printing_object") \/ IsKind(w[p], "stop_printing_object")
         [] hist[n].parser = "preprocess_ideamaker" ->
              IsKind(w[p], "PRINTING_ID") /\ w[p].id # MinusOne
         [] OTHER -> FALSE

\* the trigger at line p names an id that the scan did not register
UnknownTrigger(n, p) == IsTrigger(n, p) /\ hist[n].written[p].id \notin ScanIds(n)

\* every marker names a registered object
MarkersRegistered(n) ==
    \A p \in 1..Len(hist[n].written) :
        hist[n].written[p].k \in MarkerKinds =>
            \E j \in 1..Len(hist[n].known) : hist[n].written[p].name = RegName(n, j)

\* the markers of w before position p leave an object open
RECURSIVE OpenBefore(_, _)
OpenBefore(w, p) ==
    IF p <= 1 THEN FALSE
    ELSE IF w[p - 1].k = "START_CURRENT_OBJECT" THEN TRUE
    ELSE IF w[p - 1].k = "END_CURRENT_OBJECT" THEN FALSE
    ELSE OpenBefore(w, p - 1)

\* C8 as stated: a trigger that names an unregistered id fails the file, and
\* it is the last line written
C8_UnknownIdFatal_AsStated ==
    \A n \in ParsedCalls :
        /\ MarkersRegistered(n)
        /\ \A p \in 1..Len(hist[n].written) :
              UnknownTrigger(n, p) =>
                  hist[n].outcome = "raised" /\ p = Len(hist[n].written)

\* C8 (amended): a trigger that names an unregistered id fails the file at that
\* line: no marker is written for the id and no input line after it; the one
\* line that can follow it is, in ideaMaker, the END_CURRENT_OBJECT that closes
\* the object open at that point
C8_UnknownIdFatal ==
    \A n \in JustParsed :
        LET w == hist[n].written
        IN /\ MarkersRegistered(n)
           /\ \A p \in 1..Len(w) :
                 UnknownTrigger(n, p) =>
                    /\ hist[n].outcome = "raised"
                    /\ IF hist[n].parser = "preprocess_ideamaker" /\ OpenBefore(w, p)
                       THEN p + 1 = Len(w) /\ w[p + 1].k = "END_CURRENT_OBJECT"
                       ELSE p = Len(w)

\* C8 witness: an ideaMaker file failed at a ;PRINTING_ID: of an unregistered
\* id while an object was open
C8_Witness ==
    \E n \in ParsedCalls :
        /\ hist[n].parser = "preprocess_ideamaker"
        /\ \E p \in 1..Len(hist[n].written) :
              UnknownTrigger(n, p) /\ OpenBefore(hist[n].written, p)

\* the parser each signature stands for
ExpectedParser(slicer) ==
    CASE slicer = "superslicer" -> "preprocess_superslicer"
      [] slicer \in {"prusaslicer", "slic3r"} -> "preprocess_slicer"
      [] slicer = "cura" -> "preprocess_cura"
      [] slicer = "ideamaker" -> "preprocess_ideamaker"

\* the position of the first signature line in the leading block of c
FirstSignature(c) ==
    CHOOSE q \in 1..Len(c) :
        /\ InLead(c, q) /\ IsSignature(c, q)
        /\ \A x \in 1..(q - 1) : ~IsSignature(c, x)

\* C9: for a file without DEFINE_OBJECT line, the first signature line of the
\* leading block of blank and comment lines selects the parser (PrusaSlicer
\* and Slic3r the shared one), whatever stands at or after the first
\* non-comment line, and the parser is run on the whole file (looked at when
\* preprocessor has just ended: what a call wrote does not change afterwards)
C9_DialectSelection ==
    \A n \in Calls :
        LET c == hist[n].infile
        IN /\ n = Len(hist)
           /\ pc \in {"parse", "finish", "exit"}
           /\ ~HasDefineLine(c)
           /\ LeadHasSignature(c)
           => /\ pc = "parse" =>
                     processor = ExpectedParser(c[FirstSignature(c)].slicer)
              /\ pc \in {"finish", "exit"} =>
                    /\ hist[n].parser = ExpectedParser(c[FirstSignature(c)].slicer)
                    /\ hist[n].written =
                          RunProcessor(ExpectedParser(c[FirstSignature(c)].slicer), c).out

\* C9 witness: the signature that selects is not the first line, another
\* signature follows it, and the parser has run
C9_Witness ==
    \E n \in Calls :
        LET c == hist[n].infile
        IN /\ ~HasDefineLine(c) /\ LeadHasSignature(c)
           /\ Ended(n)
           /\ FirstSignature(c) > 1
           /\ \E x \in (FirstSignature(c) + 1)..Len(c) :
                 /\ IsSignature(c, x)
                 /\ ExpectedParser(c[x].slicer) # hist[n].parser

\* C10: a DEFINE_OBJECT line carries the sanitized name; CENTER, when present,
\* has two components, POLYGON, when present, is a list of [x, y] pairs; for
\* SuperSlicer CENTER is present exactly when object_center is given and POLYGON
\* exactly when both boxes are given, for the scanning dialects both are
\* present exactly when the hull of the object is not empty
C10_DefineShape ==
    \A n \in ParsedCalls :
        LET w == hist[n].written
            known == hist[n].known
        IN \A p \in 1..Len(w) :
              w[p].k = "known_objects" =>
                 \A j \in 1..RunOfDefines(w, p + 1) :
                    LET d == w[p + j]
                    IN /\ d.name = IF hist[n].parser = "preprocess_superslicer"
                                   THEN CleanId(known[j].id) ELSE known[j].name
                       /\ d.center # None => Len(d.center.v) = 2
                       /\ d.polygon # None =>
                             \A x \in 1..Len(d.polygon.v) : Len(d.polygon.v[x]) = 2
                       /\ IF hist[n].parser = "preprocess_superslicer"
                          THEN /\ d.center # None <=> known[j].object_center # None
                               /\ d.polygon # None <=>
                                     /\ known[j].boundingbox_center # None
                                     /\ known[j].boundingbox_size # None
                          ELSE /\ d.center # None <=> known[j].points # {}
                               /\ d.polygon # None <=> known[j].points # {}

(***************************************************************************)
(* HullTracker on its own (SpecHull).                                      *)
(***************************************************************************)
\* the points given to add_point so far
Added == {tracker.added[k] : k \in 1..Len(tracker.added)}

RECURSIVE SumDistinct(_, _, _)
\* the sum of coordinate i of the calls 1..k of s that gave a point for the first time
SumDistinct(s, k, i) ==
    IF k = 0 THEN 0
    ELSE SumDistinct(s, k - 1, i)
            + (IF \E j \in 1..(k - 1) : s[j] = s[k] THEN 0 ELSE s[k][i])

\* the fraction f is the quotient n / d
IsQuotient(f, n, d) == f.den > 0 /\ f.num * d = n * f.den

\* C11: after add_point calls exterior() is the four corners (minX,minY),
\* (minX,maxY), (maxX,maxY), (maxX,minY), in that order, of the smallest
\* rectangle that holds every point ever added, center() is the mean of the
\* distinct points, adding a point that is already there changes neither, and
\* both return None for an empty tracker
C11_HullTracker ==
    IF tracker.added = <<>>
    THEN tracker.now.center = None /\ tracker.now.exterior = None
    ELSE /\ tracker.now.exterior # None
         /\ tracker.now.center # None
         /\ LET e == tracker.now.exterior.v
                c == tracker.now.center.v
                n == Cardinality(Added)
            IN /\ Len(e) = 4
               /\ e[2] = <<e[1][1], e[3][2]>>
               /\ e[4] = <<e[3][1], e[1][2]>>
               /\ \A p \in Added :
                     /\ e[1][1] <= p[1] /\ p[1] <= e[3][1]
                     /\ e[1][2] <= p[2] /\ p[2] <= e[3][2]
               /\ \E p \in Added : p[1] = e[1][1]
               /\ \E p \in Added : p[1] = e[3][1]
               /\ \E p \in Added : p[2] = e[1][2]
               /\ \E p \in Added : p[2] = e[3][2]
               /\ Len(c) = 2
               /\ IsQuotient(c[1], SumDistinct(tracker.added, Len(tracker.added), 1), n)
               /\ IsQuotient(c[2], SumDistinct(tracker.added, Len(tracker.added), 2), n)
         /\ (\E j \in 1..(Len(tracker.added) - 1) :
                 tracker.added[j] = tracker.added[Len(tracker.added)])
                => tracker.now = tracker.before

\* C11 witness: (0,0), (2,1), and (0,0) again: the center is the mean (1,1/2) of the
\* two distinct points and the rectangle is the one of the specification's order
C11_Witness ==
    /\ tracker.added = << <<0, 0>>, <<2, 1>>, <<0, 0>> >>
    /\ tracker.now.center = Some(<<[num |-> 1, den |-> 1], [num |-> 1, den |-> 2]>>)
    /\ tracker.now.exterior = Some(<< <<0, 0>>, <<0, 1>>, <<2, 1>>, <<2, 0>> >>)
    /\ tracker.now = tracker.before

(***************************************************************************)
(* _clean_id on its own (SpecCleanId).                                     *)
(***************************************************************************)
\* letters, digits and the underscore
IsWordChar(c) == c \in WordChars

RECURSIVE Concat(_, _)
\* the pieces f[1], ..., f[k] one after the other
Concat(f, k) == IF k = 0 THEN <<>> ELSE Concat(f, k - 1) \o f[k]

\* s with every maximal run of other characters replaced by one underscore: a
\* letter, digit or underscore stays, the first character of a run becomes an
\* underscore and the rest of the run goes
RunsCollapsed(s) ==
    Concat([i \in 1..Len(s) |->
               IF IsWordChar(s[i]) THEN <<s[i]>>
               ELSE IF i = 1 \/ IsWordChar(s[i - 1]) THEN <<"_">>
               ELSE <<>>],
           Len(s))

\* r is s without its leading and trailing underscores
IsStripped(r, s) ==
    /\ r = <<>> \/ (r[1] # "_" /\ r[Len(r)] # "_")
    /\ \E a \in 1..(Len(s) + 1) :
          /\ r = SubSeq(s, a, a + Len(r) - 1)
          /\ a + Len(r) - 1 <= Len(s)
          /\ \A x \in (1..(a - 1)) \cup ((a + Len(r))..Len(s)) : s[x] = "_"

\* C12: _clean_id replaces each maximal run of characters other than letters,
\* digits and underscore by one underscore and strips the underscores at both
\* ends: the result holds only letters, digits and underscores, neither starts
\* nor ends with an underscore, "cube one!!" gives "cube_one", "__a__" gives
\* "a", and applying it to its own result changes nothing
C12_Sanitization ==
    /\ Len(cleaned) >= 1 =>
          /\ IsStripped(cleaned[1], RunsCollapsed(word))
          /\ \A x \in 1..Len(cleaned[1]) : IsWordChar(cleaned[1][x])
          /\ word = CubeOne => cleaned[1] = <<"c", "u", "b", "e", "_", "o", "n", "e">>
          /\ word = UnderA => cleaned[1] = <<"a">>
    /\ Len(cleaned) >= 2 => cleaned[2] = cleaned[1]

\* C12 witness: "cube one!!" was sanitized to "cube_one", and so was the result
C12_Witness ==
    /\ word = CubeOne
    /\ cleaned = << <<"c", "u", "b", "e", "_", "o", "n", "e">>,
                    <<"c", "u", "b", "e", "_", "o", "n", "e">> >>

(***************************************************************************)
(* Hulls and print windows.                                                *)
(***************************************************************************)
\* line i of c is an extrusion move to the point pt: a G line with E, X and Y
IsMoveTo(c, i, pt) ==
    c[i].k = "g" /\ {"E", "X", "Y"} \subseteq c[i].keys /\ <<c[i].x, c[i].y>> = pt

\* line i of c lies between a "; printing object <id>" line and the matching
\* "; stop printing object <id>" line
InPrintWindow(c, i, id) ==
    \E s \in 1..(i - 1) :
        /\ IsKind(c[s], "printing_object") /\ c[s].id = id
        /\ \A x \in (s + 1)..(i - 1) :
              ~(IsKind(c[x], "stop_printing_object") /\ c[x].id = id)

\* C13: in a PrusaSlicer/Slic3r file every point of the hull of an object comes
\* from an extrusion move that stands between a "; printing object <id>" line
\* of that object and its "; stop printing object <id>" line; a move after the
\* stop line and before the next "; printing object" line is in no hull
C13_HullWindow ==
    \A n \in ParsedCalls :
        hist[n].parser = "preprocess_slicer" =>
            \A j \in 1..Len(hist[n].known) :
                \A pt \in hist[n].known[j].points :
                    \E i \in 1..Len(hist[n].infile) :
                        /\ IsMoveTo(hist[n].infile, i, pt)
                        /\ InPrintWindow(hist[n].infile, i, hist[n].known[j].id)

(***************************************************************************)
(* The open/close protocol of the markers.                                 *)
(***************************************************************************)
\* the parser of call n has run to the end of the file
RanToEnd(n) ==
    /\ hist[n].parser # NoProcessor
    /\ hist[n].outcome # "raised"

IsMarker(line) == line.k \in MarkerKinds

\* the START and END markers of w, in order
MarkersOf(w) == SelectSeq(w, IsMarker)

\* markers alternate, beginning with START; each END names the object of the
\* START before it; no object is left open
Alternates(m) ==
    /\ Len(m) % 2 = 0
    /\ \A x \in 1..Len(m) :
          IF x % 2 = 1 THEN m[x].k = "START_CURRENT_OBJECT"
          ELSE m[x].k = "END_CURRENT_OBJECT" /\ m[x].name = m[x - 1].name

\* line p of w closes the object open before it, if there is one, and opens none
ClosesOnly(w, p) ==
    IF OpenBefore(w, p)
    THEN /\ p < Len(w) /\ w[p + 1].k = "END_CURRENT_OBJECT"
         /\ p + 1 < Len(w) => w[p + 2].k # "START_CURRENT_OBJECT"
    ELSE p < Len(w) => ~IsMarker(w[p + 1])

\* C14: in every output of the ideaMaker emission pass that ran to the end the
\* START and END markers alternate, beginning with START, each END names the
\* object of the START before it, a ;PRINTING_ID:-1 or ;REMAINING_TIME: 0 line
\* closes the open object and opens none, and no object is open at the end
C14_IdeaMakerProtocol ==
    \A n \in ParsedCalls :
        hist[n].parser = "preprocess_ideamaker" /\ RanToEnd(n) =>
            LET w == hist[n].written
            IN /\ Alternates(MarkersOf(w))
               /\ \A p \in 1..Len(w) :
                     \/ IsKind(w[p], "PRINTING_ID") /\ w[p].id = MinusOne
                     \/ w[p] = RemainingTime0
                     => ClosesOnly(w, p)

\* the position of the last line of kind kd in w (0: there is none)
LastOf(w, kd) ==
    IF \E p \in 1..Len(w) : IsKind(w[p], kd)
    THEN CHOOSE p \in 1..Len(w) :
            IsKind(w[p], kd) /\ \A x \in (p + 1)..Len(w) : ~IsKind(w[x], kd)
    ELSE 0

\* line p of w closes the object open before it, if there is one, and then
\* opens the object called name
ClosesThenOpens(w, p, name) ==
    LET q == IF OpenBefore(w, p) THEN p + 2 ELSE p + 1
    IN /\ OpenBefore(w, p) => p < Len(w) /\ w[p + 1].k = "END_CURRENT_OBJECT"
       /\ q <= Len(w) /\ w[q] = StartLine(name)

\* C15: in every output of the Cura emission pass that ran to the end,
\* whatever the mesh names sanitize to, the START and END markers alternate,
\* beginning with START, each END names the object of the START before it, a
\* ;MESH: line closes the open object and opens the new one (;MESH:NONMESH
\* closes only), the last ;TIME_ELAPSED: line closes the open object, and no
\* object is open at the end
C15_CuraProtocol ==
    \A n \in ParsedCalls :
        hist[n].parser = "preprocess_cura" /\ RanToEnd(n) =>
            LET w == hist[n].written
                h == FirstOf(w, "known_objects")
            IN /\ Alternates(MarkersOf(w))
               /\ \A p \in (h + 1)..Len(w) :
                     /\ IsKind(w[p], "MESH") =>
                           IF w[p].name = NONMESH THEN ClosesOnly(w, p)
                           ELSE ClosesThenOpens(w, p, CleanId(w[p].name))
                     /\ p = LastOf(w, "TIME_ELAPSED") /\ OpenBefore(w, p) =>
                           p < Len(w) /\ w[p + 1].k = "END_CURRENT_OBJECT"

\* line i of the output w stands between START_CURRENT_OBJECT of the object
\* called name and the END_CURRENT_OBJECT that follows it
InObjectWindow(w, i, name) ==
    \E s \in 1..(i - 1) :
        /\ w[s] = StartLine(name)
        /\ \A x \in (s + 1)..(i - 1) : ~IsMarker(w[x])

\* C16: in a Cura or ideaMaker file every point of the hull of an object comes
\* from an extrusion move that the emission pass writes between
\* START_CURRENT_OBJECT of that object and the END_CURRENT_OBJECT after it; the
\* moves after ;MESH:NONMESH or after a block with id -1 are in no hull
C16_HullMatchesWindow ==
    \A n \in ParsedCalls :
        hist[n].parser \in {"preprocess_cura", "preprocess_ideamaker"} /\ RanToEnd(n) =>
            \A j \in 1..Len(hist[n].known) :
                \A pt \in hist[n].known[j].points :
                    \E i \in 1..Len(hist[n].written) :
                        /\ IsMoveTo(hist[n].written, i, pt)
                        /\ InObjectWindow(hist[n].written, i, hist[n].known[j].name)

\* C17: in every output of a dialect parser each START_CURRENT_OBJECT and
\* END_CURRENT_OBJECT line of an object stands after a header block with the
\* DEFINE_OBJECT line of that object, wherever the line that triggers the
\* header stands, and when there is no such line
C17_DefinedBeforeUse ==
    \A n \in ParsedCalls :
        LET w == hist[n].written
        IN \A p \in 1..Len(w) :
              IsMarker(w[p]) =>
                 \E h, d \in 1..(p - 1) :
                    /\ h < d
                    /\ w[h].k = "known_objects"
                    /\ w[d].k = "DEFINE_OBJECT" /\ w[d].name = w[p].name

(***************************************************************************)
(* The original content in the output.                                     *)
(***************************************************************************)
\* the kinds of the lines the parsers inject
InjectedKinds ==
    {"blank", "header_marker", "known_objects", "DEFINE_OBJECT",
     "START_CURRENT_OBJECT", "END_CURRENT_OBJECT"}

IsInjectedKind(line) == line.k \in InjectedKinds

RECURSIVE IsInputPlusInjected(_, _, _, _)
\* the lines of w from q on are the lines of c from i on, each once and in
\* order, with lines of the injected kinds among them
IsInputPlusInjected(c, i, w, q) ==
    IF q > Len(w) THEN i > Len(c)
    ELSE IF i <= Len(c) /\ w[q] = c[i] THEN IsInputPlusInjected(c, i + 1, w, q + 1)
    ELSE IsInjectedKind(w[q]) /\ IsInputPlusInjected(c, i, w, q + 1)

\* line i of the input c of call n is one after which the parser injects lines
IsInjectionPoint(n, i) ==
    LET c == hist[n].infile
    IN \/ i = Len(c)
       \/ CASE hist[n].parser = "preprocess_superslicer" ->
                 \/ IsKind(c[i], "plater")
                 \/ IsKind(c[i], "printing_object")
                 \/ IsKind(c[i], "stop_printing_object")
            [] hist[n].parser = "preprocess_slicer" ->
                 \/ IsKind(c[i], "generated_by")
                 \/ IsKind(c[i], "sig") /\ c[i].slicer \in {"superslicer", "prusaslicer", "slic3r"}
                 \/ IsKind(c[i], "printing_object")
                 \/ IsKind(c[i], "stop_printing_object")
            [] hist[n].parser = "preprocess_cura" ->
                 \/ IsKind(c[i], "MESH")
                 \/ IsKind(c[i], "TIME_ELAPSED")
                 \/ /\ ~InLead(c, i)
                    /\ \A x \in 1..(i - 1) : InLead(c, x)
            [] hist[n].parser = "preprocess_ideamaker" ->
                 \/ IsKind(c[i], "TOTAL_NUM")
                 \/ IsKind(c[i], "PRINTING_ID")
                 \/ c[i] = RemainingTime0

\* the number of lines of w before position p that are not of the injected kinds
RECURSIVE InputLinesBefore(_, _)
InputLinesBefore(w, p) ==
    IF p <= 1 THEN 0
    ELSE InputLinesBefore(w, p - 1) + (IF IsInjectedKind(w[p - 1]) THEN 0 ELSE 1)

IsUnpaired(c, i) ==
    IsKind(c[i], "PRINTING") /\ (i = Len(c) \/ ~IsKind(c[i + 1], "PRINTING_ID"))

\* the position of the first ;PRINTING: line of c that is paired with id
FirstPrintingOf(c, id) ==
    CHOOSE i \in 1..(Len(c) - 1) :
        /\ IsKind(c[i], "PRINTING") /\ c[i + 1].id = id
        /\ \A x \in 1..(i - 1) : ~(IsKind(c[x], "PRINTING") /\ c[x + 1].id = id)

\* C19: an ideaMaker file with a ;PRINTING: line that is not directly followed by
\* a ;PRINTING_ID: line fails in the scan pass, with no line written; when every
\* ;PRINTING: line is paired, every id but -1 is registered once, under the
\* sanitized name of the first ;PRINTING: line paired with it
C19_PairingCheck ==
    \A n \in ParsedCalls :
        hist[n].parser = "preprocess_ideamaker" =>
            LET c == hist[n].infile
                known == hist[n].known
            IN IF \E i \in 1..Len(c) : IsUnpaired(c, i)
               THEN hist[n].outcome = "raised" /\ hist[n].written = <<>>
               ELSE /\ RegIds(n) = ScanIds(n)
                    /\ Len(known) = Cardinality(ScanIds(n))
                    /\ \A j \in 1..Len(known) :
                          known[j].name = CleanId(c[FirstPrintingOf(c, known[j].id)].name)

====
